---- MODULE Spec2Model ----
(***************************************************************************)
(* fix_go_packages.py: walk a directory tree and rewrite the first package *)
(* declaration of every .go file so that it names the enclosing folder.    *)
(*                                                                         *)
(* Text (file contents, folder names, file names) is a sequence of         *)
(* one-character strings.  A path is the pair of the folder's base name    *)
(* and the file's name, which is all fix_package_names reads of it.        *)
(***************************************************************************)
EXTENDS Integers, Sequences, FiniteSets, TLC

\* ------------------------------------------------------------------ bounds
MaxLines == 2
MaxPartial == 1

\* ------------------------------------------------------- character classes
NL == "\n"
TAB == "\t"
BSL == "\\"
\* a lone surrogate: what os.walk yields for a byte of a name that is not UTF-8
SURR == "<udcff>"

AsciiLetters ==
  {"a","b","c","d","e","f","g","h","i","j","k","l","m",
   "n","o","p","q","r","s","t","u","v","w","x","y","z"}
Digits == {"0","1","2","3","4","5","6","7","8","9"}
OctDigits == {"0","1","2","3","4","5","6","7"}
\* \w of a str pattern
WordChars == AsciiLetters \cup Digits \cup {"_"}
\* \s of a str pattern
SpaceChars == {" ", TAB, NL, "<CR>", "<FF>", "<VT>"}

Min(S) == CHOOSE x \in S : \A y \in S : x <= y

\* str.endswith
EndsWith(s, suf) ==
  /\ Len(suf) <= Len(s)
  /\ SubSeq(s, Len(s) - Len(suf) + 1, Len(s)) = suf

RECURSIVE SpanEnd(_, _, _)
\* last index of the longest run of characters of class C that starts at i
\* (i - 1 when s[i] is not in C or i is past the end)
SpanEnd(s, i, C) ==
  IF i > Len(s) \/ s[i] \notin C THEN i - 1 ELSE SpanEnd(s, i + 1, C)

\* ------------------------------------------------------- PACKAGE_PATTERN
PACKAGE == <<"p","a","c","k","a","g","e">>

\* r"^package\s+(\w+)" with re.MULTILINE, tried at position i
MatchesAt(s, i) ==
  /\ i = 1 \/ s[i - 1] = NL
  /\ i + Len(PACKAGE) - 1 <= Len(s)
  /\ SubSeq(s, i, i + Len(PACKAGE) - 1) = PACKAGE
  /\ LET wsEnd == SpanEnd(s, i + Len(PACKAGE), SpaceChars)
     IN  /\ wsEnd >= i + Len(PACKAGE)
         /\ SpanEnd(s, wsEnd + 1, WordChars) >= wsEnd + 1

\* the span of the match at i: it starts at from, group 1 is idFrom..to
MatchAt(s, i) ==
  LET wsEnd == SpanEnd(s, i + Len(PACKAGE), SpaceChars)
  IN  [from |-> i, idFrom |-> wsEnd + 1, to |-> SpanEnd(s, wsEnd + 1, WordChars)]

NoMatch == [from |-> 0, idFrom |-> 0, to |-> 0]

RECURSIVE FirstMatch(_, _)
\* the least position at or after i where the pattern matches, 0 when none
FirstMatch(s, i) ==
  IF i > Len(s) THEN 0
  ELSE IF MatchesAt(s, i) THEN i
  ELSE FirstMatch(s, i + 1)

\* PACKAGE_PATTERN.search(content): the leftmost match, or NoMatch
Search(s) ==
  LET i == FirstMatch(s, 1)
  IN  IF i = 0 THEN NoMatch ELSE MatchAt(s, i)

\* match.group(1)
Group1(s, m) == SubSeq(s, m.idFrom, m.to)

\* ------------------------------------------- re.sub's replacement template
\* The replacement string of PACKAGE_PATTERN.sub is a template: re expands
\* its backslash escapes before it is put in place of the match.
BadTemplate == [ok |-> FALSE, text |-> <<>>]

Escapes ==
  [c \in {"a","b","f","n","r","t","v",BSL} |->
     CASE c = "a" -> "<BEL>" [] c = "b" -> "<BS>" [] c = "f" -> "<FF>"
       [] c = "n" -> NL      [] c = "r" -> "<CR>" [] c = "t" -> TAB
       [] c = "v" -> "<VT>"  [] c = BSL -> BSL]

\* index of the first ">" at or after i, 0 when there is none
CloseAt(t, i) ==
  LET at == {j \in i..Len(t) : t[j] = ">"}
  IN  IF at = {} THEN 0 ELSE Min(at)

RECURSIVE Expand(_, _, _, _)
\* the expansion of t[i..] for a match whose text is m0 and whose group 1 is g1
Expand(t, i, m0, g1) ==
  LET rest(k, piece) ==
        LET r == Expand(t, k, m0, g1)
        IN  IF r.ok THEN [ok |-> TRUE, text |-> piece \o r.text] ELSE BadTemplate
      c == t[i + 1]
  IN  IF i > Len(t) THEN [ok |-> TRUE, text |-> <<>>]
      ELSE IF t[i] # BSL THEN rest(i + 1, <<t[i]>>)
      \* bad escape (end of pattern)
      ELSE IF i = Len(t) THEN BadTemplate
      ELSE IF c = "g" THEN
        \* \g<1>, \g<0>; any other name is an unknown group, no "<" is an error
        IF i + 2 <= Len(t) /\ t[i + 2] = "<" /\ CloseAt(t, i + 3) > i + 3
        THEN LET close == CloseAt(t, i + 3)
                 name == SubSeq(t, i + 3, close - 1)
             IN  IF name = <<"1">> THEN rest(close + 1, g1)
                 ELSE IF name = <<"0">> THEN rest(close + 1, m0)
                 ELSE BadTemplate
        ELSE BadTemplate
      ELSE IF c \in Digits THEN
        IF i + 2 <= Len(t) /\ t[i + 2] \in Digits
        THEN IF c = "0" THEN rest(i + 3, <<"<OCT>">>)
             ELSE IF /\ c \in OctDigits /\ t[i + 2] \in OctDigits
                     /\ i + 3 <= Len(t) /\ t[i + 3] \in OctDigits
                  THEN rest(i + 4, <<"<OCT>">>)
                  \* invalid group reference: the pattern has one group
                  ELSE BadTemplate
        ELSE IF c = "0" THEN rest(i + 2, <<"<NUL>">>)
             ELSE IF c = "1" THEN rest(i + 2, g1)
             ELSE BadTemplate
      ELSE IF c \in DOMAIN Escapes THEN rest(i + 2, <<Escapes[c]>>)
      \* bad escape \c
      ELSE IF c \in AsciiLetters THEN BadTemplate
      ELSE rest(i + 2, <<BSL, c>>)

\* PACKAGE_PATTERN.sub(repl, content, count=1), given the first match m:
\* [ok |-> FALSE] when re.error is raised
Sub(repl, content, m) ==
  LET e == Expand(repl, 1, SubSeq(content, m.from, m.to), Group1(content, m))
  IN  IF e.ok
      THEN [ok |-> TRUE,
            text |-> SubSeq(content, 1, m.from - 1) \o e.text
                     \o SubSeq(content, m.to + 1, Len(content))]
      ELSE BadTemplate

\* ----------------------------------------------------- the decision tree
GO == <<".","g","o">>
TEST_GO == <<"_","t","e","s","t",".","g","o">>
TEST == <<"_","t","e","s","t">>

\* a slip: the suffix is kept whatever the file's name (is_test_file unused)
expected_package_any_file(folder_name, filename, current_package) ==
  IF EndsWith(current_package, TEST) THEN folder_name \o TEST ELSE folder_name

\* a slip: every test file gets the suffix (has_test_suffix unused)
expected_package_always_suffix(folder_name, filename, current_package) ==
  IF EndsWith(filename, TEST_GO) THEN folder_name \o TEST ELSE folder_name

\* lines 27-39: the identifier the file should declare
expected_package(folder_name, filename, current_package) ==
  LET is_test_file == EndsWith(filename, TEST_GO)
      has_test_suffix == EndsWith(current_package, TEST)
  IN  IF is_test_file
      THEN IF has_test_suffix THEN folder_name \o TEST ELSE folder_name
      ELSE folder_name

\* f"package {expected_package}"
Repl(expected) == PACKAGE \o <<" ">> \o expected

\* text.encode("utf-8") of f.write raises on a lone surrogate
Encodable(text) == \A i \in 1..Len(text) : text[i] # SURR

\* ------------------------------------------------------------- the inputs
\* os.path.basename(dirpath) of the directory walked: a, a_test, a-b, "" (a
\* root_dir given with a trailing slash), a\1, a\p, and a name with a byte
\* that is not UTF-8
Folders ==
  { <<"a">>, <<"a","_","t","e","s","t">>, <<"a","-","b">>, <<>>,
    <<"a",BSL,"1">>, <<"a",BSL,"p">>, <<"a",SURR>> }

\* x.go, x_test.go, x.txt
Names ==
  { <<"x">> \o GO, <<"x">> \o TEST_GO, <<"x",".","t","x","t">> }

\* package a / package b_test / package / b
Lines ==
  { PACKAGE \o <<" ","a">>, PACKAGE \o <<" ","b">> \o TEST, PACKAGE, <<"b">> }

RECURSIVE Join(_)
Join(ls) ==
  IF ls = <<>> THEN <<>>
  ELSE IF Len(ls) = 1 THEN ls[1]
  ELSE ls[1] \o <<NL>> \o Join(Tail(ls))

LineSeqs(n) == UNION {[1..k -> Lines] : k \in 0..n}

\* the texts of at most n lines
Contents(n) == {Join(ls) : ls \in LineSeqs(n)}

LineCount(c) ==
  IF c = <<>> THEN 0 ELSE 1 + Cardinality({i \in 1..Len(c) : c[i] = NL})

RECURSIVE SumLines(_, _)
SumLines(t, S) ==
  IF S = {} THEN 0
  ELSE LET p == CHOOSE q \in S : TRUE
       IN  LineCount(t[p]) + SumLines(t, S \ {p})

IsGo(filename) == EndsWith(filename, GO)

\* the files a directory may hold: some of Names, the .go files holding at
\* most MaxLines lines in all, any other file holding package b
Listings ==
  UNION {
    LET go == {n \in S : IsGo(n)}
    IN  { [n \in S |-> IF IsGo(n) THEN g[n] ELSE PACKAGE \o <<" ","b">>]
          : g \in {h \in [go -> Contents(MaxLines)] : SumLines(h, go) <= MaxLines} }
    : S \in SUBSET Names \ {{}} }

\* ---------------------------------------------------------------- state
VARIABLES
  folder,    \* os.path.basename(dirpath) of the directory under root_dir
  fs,        \* the files of that directory: filename -> text
  dry_run,   \* the mode of the run in progress
  visited,   \* the filenames the loop of this run has been through
  out,       \* the lines printed by this run
  phase,     \* "first" or "second": the program is run, then run again
  before,    \* fs as this run found it
  prev       \* the first run, once over: its mode, the fs it found, its lines

vars == <<folder, fs, dry_run, visited, out, phase, before, prev>>

NoRun == [dry_run |-> FALSE, before |-> <<>>, out |-> <<>>]

Init ==
  /\ folder \in Folders
  /\ fs \in Listings
  /\ dry_run \in BOOLEAN
  /\ visited = {}
  /\ out = <<>>
  /\ phase = "first"
  /\ before = fs
  /\ prev = NoRun

\* lines 22-41 for a file read as content: what the search finds, the
\* declared identifier and the expected one
Decide(folder_name, filename, content) ==
  LET match == Search(content)
      current_package == Group1(content, match)
      expected == expected_package(folder_name, filename, current_package)
  IN  IF match = NoMatch
      THEN [found |-> FALSE, differs |-> FALSE, match |-> NoMatch,
            current_package |-> <<>>, expected_package |-> <<>>]
      ELSE [found |-> TRUE, differs |-> current_package # expected, match |-> match,
            current_package |-> current_package, expected_package |-> expected]

\* lines 45-47: new_content for a decision d taken on content
NewContent(d, content) == Sub(Repl(d.expected_package), content, d.match)

Decision(p) == Decide(folder, p, fs[p])

DryRunLine(p, d) ==
  [kind |-> "DRY-RUN", path |-> p, old |-> d.current_package,
   new |-> d.expected_package, err |-> ""]
UpdatedLine(p, d) ==
  [kind |-> "Updated", path |-> p, old |-> d.current_package,
   new |-> d.expected_package, err |-> ""]
SkippedLine(p, e) ==
  [kind |-> "Skipped", path |-> p, old |-> <<>>, new |-> <<>>, err |-> e]

\* I/O failures (OSError, UnicodeDecodeError) are the environment's: they are
\* followed through the first run, and the program is run again after a run
\* that met none
IOFailed(lines) ==
  \E i \in 1..Len(lines) : lines[i].err \in {"read", "open", "write", "encode"}

MayFail == phase = "first"

\* the inner loop takes the next file name; the order is the listing's
Pending(p) == p \in DOMAIN fs /\ p \notin visited

Visit(p) == visited' = visited \cup {p}

\* line 10: not a .go file
SkipNotGo(p) ==
  /\ Pending(p)
  /\ ~IsGo(p)
  /\ Visit(p)
  /\ UNCHANGED <<folder, fs, dry_run, out, phase, before, prev>>

\* lines 14-16: the directory has an empty base name
SkipNoFolder(p) ==
  /\ Pending(p)
  /\ IsGo(p)
  /\ folder = <<>>
  /\ Visit(p)
  /\ UNCHANGED <<folder, fs, dry_run, out, phase, before, prev>>

Opened(p) == Pending(p) /\ IsGo(p) /\ folder # <<>>

\* a slip: no try around the read, the exception ends the walk
ReadFailsAborts(p) ==
  /\ Opened(p)
  /\ MayFail
  /\ out' = Append(out, SkippedLine(p, "read"))
  /\ visited' = DOMAIN fs
  /\ UNCHANGED <<folder, fs, dry_run, phase, before, prev>>

\* lines 19-20 raise: the file cannot be opened, read or decoded
ReadFails(p) ==
  /\ Opened(p)
  /\ MayFail
  /\ out' = Append(out, SkippedLine(p, "read"))
  /\ Visit(p)
  /\ UNCHANGED <<folder, fs, dry_run, phase, before, prev>>

\* a slip: a file without a declaration is reported, not passed over
SkipNoMatchWarns(p) ==
  /\ Opened(p)
  /\ ~Decision(p).found
  /\ out' = Append(out, SkippedLine(p, "no package"))
  /\ Visit(p)
  /\ UNCHANGED <<folder, fs, dry_run, phase, before, prev>>

\* lines 22-24: no package declaration
SkipNoMatch(p) ==
  /\ Opened(p)
  /\ ~Decision(p).found
  /\ Visit(p)
  /\ UNCHANGED <<folder, fs, dry_run, out, phase, before, prev>>

\* a slip: line 41's test is missing, the file is reported all the same
AlreadyCorrectReports(p) ==
  /\ Opened(p)
  /\ LET d == Decision(p)
     IN  /\ d.found /\ ~d.differs
         /\ out' = Append(out, IF dry_run THEN DryRunLine(p, d) ELSE UpdatedLine(p, d))
  /\ Visit(p)
  /\ UNCHANGED <<folder, fs, dry_run, phase, before, prev>>

\* line 41 false: the declaration is the expected one
AlreadyCorrect(p) ==
  /\ Opened(p)
  /\ LET d == Decision(p) IN d.found /\ ~d.differs
  /\ Visit(p)
  /\ UNCHANGED <<folder, fs, dry_run, out, phase, before, prev>>

\* a slip: the preview branch writes as the apply branch does
DryRunReportWrites(p) ==
  /\ Opened(p)
  /\ dry_run
  /\ LET d == Decision(p)
         new_content == NewContent(d, fs[p])
     IN  /\ d.differs /\ new_content.ok
         /\ fs' = [fs EXCEPT ![p] = new_content.text]
         /\ out' = Append(out, DryRunLine(p, d))
  /\ Visit(p)
  /\ UNCHANGED <<folder, dry_run, phase, before, prev>>

\* lines 42-43
DryRunReport(p) ==
  /\ Opened(p)
  /\ dry_run
  /\ LET d == Decision(p)
     IN  /\ d.differs
         /\ out' = Append(out, DryRunLine(p, d))
  /\ Visit(p)
  /\ UNCHANGED <<folder, fs, dry_run, phase, before, prev>>

\* lines 45-47 raise re.error: the replacement is not a valid template
SubFails(p) ==
  /\ Opened(p)
  /\ ~dry_run
  /\ LET d == Decision(p) IN d.differs /\ ~NewContent(d, fs[p]).ok
  /\ out' = Append(out, SkippedLine(p, "re.error"))
  /\ Visit(p)
  /\ UNCHANGED <<folder, fs, dry_run, phase, before, prev>>

\* line 48 raises: the file cannot be opened for writing
OpenWriteFails(p) ==
  /\ Opened(p)
  /\ ~dry_run
  /\ LET d == Decision(p) IN d.differs /\ NewContent(d, fs[p]).ok
  /\ MayFail
  /\ out' = Append(out, SkippedLine(p, "open"))
  /\ Visit(p)
  /\ UNCHANGED <<folder, fs, dry_run, phase, before, prev>>

\* line 49 raises UnicodeEncodeError: open(.., "w") has emptied the file
EncodeFails(p) ==
  /\ Opened(p)
  /\ ~dry_run
  /\ LET d == Decision(p)
         new_content == NewContent(d, fs[p])
     IN  /\ d.differs /\ new_content.ok
         /\ ~Encodable(new_content.text)
  /\ fs' = [fs EXCEPT ![p] = <<>>]
  /\ out' = Append(out, SkippedLine(p, "encode"))
  /\ Visit(p)
  /\ UNCHANGED <<folder, dry_run, phase, before, prev>>

\* line 49 or the close of line 48's with raises OSError: open(.., "w") has
\* emptied the file and at most MaxPartial characters have reached it
WriteFails(p) ==
  /\ Opened(p)
  /\ ~dry_run
  /\ MayFail
  /\ LET d == Decision(p)
         new_content == NewContent(d, fs[p])
     IN  /\ d.differs /\ new_content.ok
         /\ Encodable(new_content.text)
         /\ \E k \in 0..MaxPartial :
              /\ k < Len(new_content.text)
              /\ fs' = [fs EXCEPT ![p] = SubSeq(new_content.text, 1, k)]
  /\ out' = Append(out, SkippedLine(p, "write"))
  /\ Visit(p)
  /\ UNCHANGED <<folder, dry_run, phase, before, prev>>

\* lines 45-50
Update(p) ==
  /\ Opened(p)
  /\ ~dry_run
  /\ LET d == Decision(p)
         new_content == NewContent(d, fs[p])
     IN  /\ d.differs /\ new_content.ok
         /\ Encodable(new_content.text)
         /\ fs' = [fs EXCEPT ![p] = new_content.text]
         /\ out' = Append(out, UpdatedLine(p, d))
  /\ Visit(p)
  /\ UNCHANGED <<folder, dry_run, phase, before, prev>>

RunOver == visited = DOMAIN fs

\* the walk is over without an I/O failure and the program is run again, in
\* either mode
RunAgain ==
  /\ RunOver
  /\ ~IOFailed(out)
  /\ phase = "first"
  /\ phase' = "second"
  /\ prev' = [dry_run |-> dry_run, before |-> before, out |-> out]
  /\ dry_run' \in BOOLEAN
  /\ before' = fs
  /\ visited' = {}
  /\ out' = <<>>
  /\ UNCHANGED <<folder, fs>>

Next ==
  \/ \E p \in Names : SkipNotGo(p)
  \/ \E p \in Names : SkipNoFolder(p)
  \/ \E p \in Names : ReadFails(p)
  \/ \E p \in Names : SkipNoMatch(p)
  \/ \E p \in Names : AlreadyCorrect(p)
  \/ \E p \in Names : DryRunReport(p)
  \/ \E p \in Names : SubFails(p)
  \/ \E p \in Names : OpenWriteFails(p)
  \/ \E p \in Names : EncodeFails(p)
  \/ \E p \in Names : WriteFails(p)
  \/ \E p \in Names : Update(p)
  \/ RunAgain

Spec == Init /\ [][Next]_vars

\* ====================================================== the claims
IsTest(filename) == EndsWith(filename, TEST_GO)

\* folder names made of word characters only, such as a and a_test
WordOnly(name) == name # <<>> /\ \A i \in 1..Len(name) : name[i] \in WordChars

HasLine(lines, p, kind) ==
  \E i \in 1..Len(lines) : lines[i].path = p /\ lines[i].kind = kind

\* the decision on what the run found in p, and on what it left there
Found(p) == Decide(folder, p, before[p])
Left(p) == Decide(folder, p, fs[p])

Prefix(text, m) == SubSeq(text, 1, m.from - 1)
Suffix(text, m) == SubSeq(text, m.to + 1, Len(text))

\* the text of p is what the run found but for the declaration, which reads
\* "package <name>"
Redeclared(p, name) ==
  /\ fs[p] = Prefix(before[p], Found(p).match) \o Repl(name)
             \o Suffix(before[p], Found(p).match)
  /\ Left(p).found
  /\ Left(p).match.from = Found(p).match.from
  /\ Left(p).current_package = name

\* the .go files of a named folder that hold a declaration and that the run
\* went through without a warning
Processed(p) ==
  /\ p \in DOMAIN fs /\ IsGo(p) /\ folder # <<>>
  /\ Found(p).found
  /\ ~HasLine(out, p, "Skipped")

ExpectedOfTest(p) ==
  IF EndsWith(Found(p).current_package, TEST) THEN folder \o TEST ELSE folder

\* C2 as stated: after an apply run a _test.go file declares <folder>_test when
\* it declared an identifier ending in _test, and the bare folder name
\* otherwise.
C2_AnyFolder ==
  (RunOver /\ ~dry_run) =>
    \A p \in DOMAIN fs :
      (Processed(p) /\ IsTest(p)) => Left(p).current_package = ExpectedOfTest(p)

\* C2 amended: the same for folder names made of word characters only.
C2_WordFolder ==
  (RunOver /\ ~dry_run /\ WordOnly(folder)) =>
    \A p \in DOMAIN fs :
      (Processed(p) /\ IsTest(p)) =>
        /\ Left(p).current_package = ExpectedOfTest(p)
        /\ Found(p).differs => Redeclared(p, ExpectedOfTest(p))

C2_Witness ==
  /\ RunOver /\ ~dry_run /\ WordOnly(folder)
  /\ \E p \in DOMAIN fs :
       /\ Processed(p) /\ IsTest(p)
       /\ EndsWith(Found(p).current_package, TEST)
       /\ HasLine(out, p, "Updated")
       /\ Left(p).current_package = folder \o TEST

\* ---- C3
\* every .go file of a named folder with a declaration declares what is expected
Settled(files) ==
  \A p \in DOMAIN files :
    (IsGo(p) /\ folder # <<>>) => ~Decide(folder, p, files[p]).differs

TwoApplyRuns == RunOver /\ phase = "second" /\ ~prev.dry_run /\ ~dry_run

\* C3 as stated: of two apply runs in succession, on any tree, the second finds
\* every declaration as expected, writes no file and prints no update line.
C3_AnyTree ==
  TwoApplyRuns =>
    /\ Settled(before)
    /\ fs = before
    /\ \A i \in 1..Len(out) : out[i].kind # "Updated"

\* a _test.go file that declares an identifier without the _test suffix
BareTest(files) ==
  \E p \in DOMAIN files :
    /\ IsTest(p)
    /\ Decide(folder, p, files[p]).found
    /\ ~EndsWith(Decide(folder, p, files[p]).current_package, TEST)

\* C3 when the folder name is made of word characters only and no folder named
\* ..._test holds a _test.go file declaring an identifier without the suffix.
C3_WordFolder ==
  (/\ TwoApplyRuns
   /\ WordOnly(folder)
   /\ ~(EndsWith(folder, TEST) /\ BareTest(prev.before))) =>
    /\ Settled(before)
    /\ fs = before
    /\ out = <<>>

\* ---- C4
\* C4: in preview mode every file holds, at every point of the run, the text
\* the run found in it.
C4_PreviewReadOnly == dry_run => fs = before

C4_Witness ==
  /\ RunOver /\ dry_run
  /\ Cardinality({i \in 1..Len(out) : out[i].kind = "DRY-RUN"}) = 2

\* ---- C5
LinesFor(lines, p) == SelectSeq(lines, LAMBDA l : l.path = p)

OSErrorOn(lines, p) ==
  \E i \in 1..Len(lines) : lines[i].path = p /\ lines[i].err \in {"read", "open", "write"}

\* what a run in this mode over q alone, meeting no OSError, leaves in q and
\* prints about it
Alone(q) ==
  LET d == Found(q)
      new_content == NewContent(d, before[q])
  IN  IF ~IsGo(q) \/ folder = <<>> \/ ~d.differs
      THEN [text |-> before[q], lines |-> <<>>]
      ELSE IF dry_run
      THEN [text |-> before[q], lines |-> <<DryRunLine(q, d)>>]
      ELSE IF ~new_content.ok
      THEN [text |-> before[q], lines |-> <<SkippedLine(q, "re.error")>>]
      ELSE IF ~Encodable(new_content.text)
      THEN [text |-> <<>>, lines |-> <<SkippedLine(q, "encode")>>]
      ELSE [text |-> new_content.text, lines |-> <<UpdatedLine(q, d)>>]

Unreadable(p) == HasLine(out, p, "Skipped") /\ \E i \in 1..Len(out) :
                   out[i].path = p /\ out[i].err = "read"

\* C5: a file that cannot be read gets one warning line, and at the end of the
\* run every other file is as a run without the unreadable file leaves it.
C5_UnreadableSkipped ==
  RunOver =>
    \A p \in DOMAIN fs :
      Unreadable(p) =>
        /\ LinesFor(out, p) = <<SkippedLine(p, "read")>>
        /\ fs[p] = before[p]
        /\ \A q \in DOMAIN fs \ {p} :
             ~OSErrorOn(out, q) =>
               /\ fs[q] = Alone(q).text
               /\ LinesFor(out, q) = Alone(q).lines

C5_Witness ==
  /\ RunOver
  /\ \E p \in DOMAIN fs :
       /\ Unreadable(p)
       /\ Found(p).differs
       /\ \E q \in DOMAIN fs \ {p} : HasLine(out, q, "Updated") /\ fs[q] # before[q]

\* ---- C6
\* C6: in either mode a .go file that was read and holds no declaration is
\* never written and nothing is printed about it.
C6_NoDeclaration ==
  \A p \in DOMAIN fs :
    (IsGo(p) /\ ~Found(p).found /\ ~Unreadable(p)) =>
      /\ fs[p] = before[p]
      /\ LinesFor(out, p) = <<>>

C6_Witness ==
  /\ RunOver /\ ~dry_run /\ folder # <<>>
  /\ \E p \in DOMAIN fs :
       /\ IsGo(p) /\ ~Found(p).found /\ before[p] # <<>>
       /\ \E q \in DOMAIN fs \ {p} : HasLine(out, q, "Updated")

\* ---- C7
\* C7: in either mode a .go file that was read and declares the expected
\* identifier is never written and nothing is printed about it.
C7_AlreadyCorrect ==
  \A p \in DOMAIN fs :
    (/\ IsGo(p) /\ folder # <<>>
     /\ Found(p).found /\ ~Found(p).differs
     /\ ~Unreadable(p)) =>
      /\ fs[p] = before[p]
      /\ LinesFor(out, p) = <<>>

C7_Witness ==
  /\ RunOver /\ phase = "first" /\ ~dry_run /\ folder # <<>>
  /\ \E p \in DOMAIN fs :
       /\ IsGo(p) /\ Found(p).found /\ ~Found(p).differs
       /\ \E q \in DOMAIN fs \ {p} : HasLine(out, q, "Updated")

\* ---- C8
NoBackslash(name) == \A i \in 1..Len(name) : name[i] # BSL

\* the Updated line of p names old and new, old is the identifier of the
\* leftmost declaration, and p holds what it held with that declaration alone
\* replaced by "package <new>"
FirstRewritten(p, line) ==
  LET m == Found(p).match
  IN  /\ \A i \in 1..(m.from - 1) : ~MatchesAt(before[p], i)
      /\ line.old = Group1(before[p], m)
      /\ fs[p] = Prefix(before[p], m) \o Repl(line.new) \o Suffix(before[p], m)

\* C8 as stated: every file an apply run reports updated has had its first
\* declaration replaced by "package <expected>" and nothing else changed.
C8_AnyFolder ==
  (RunOver /\ ~dry_run) =>
    \A i \in 1..Len(out) :
      out[i].kind = "Updated" => FirstRewritten(out[i].path, out[i])

\* C8 for the folder names that hold no backslash.
C8_NoBackslash ==
  (RunOver /\ ~dry_run /\ NoBackslash(folder)) =>
    \A i \in 1..Len(out) :
      out[i].kind = "Updated" => FirstRewritten(out[i].path, out[i])

\* ---- C9
\* C9: in apply mode a file the run printed a Skipped warning for holds what
\* the run found in it.
C9_UnchangedOnError ==
  ~dry_run =>
    \A p \in DOMAIN fs : HasLine(out, p, "Skipped") => fs[p] = before[p]

\* ---- C10
Reports(lines, kind) ==
  { <<lines[i].path, lines[i].old, lines[i].new>> :
      i \in {j \in 1..Len(lines) : lines[j].kind = kind} }

\* a preview run, then an apply run, neither meeting an I/O failure
PreviewThenApply ==
  /\ RunOver /\ phase = "second" /\ prev.dry_run /\ ~dry_run
  /\ ~IOFailed(prev.out) /\ ~IOFailed(out)

PreviewAgrees ==
  /\ Reports(prev.out, "DRY-RUN") = Reports(out, "Updated")
  /\ \A p \in DOMAIN fs : HasLine(prev.out, p, "DRY-RUN") <=> fs[p] # before[p]

\* C10 as stated: a preview run and the apply run after it, neither meeting an
\* I/O failure, report the same (file, old, new) triples, and the files the
\* preview names are the files the apply run changes.
C10_AnyFolder == PreviewThenApply => PreviewAgrees

\* C10 for the folder names that hold no backslash.
C10_NoBackslash == (PreviewThenApply /\ NoBackslash(folder)) => PreviewAgrees

====
